---- MODULE Spec2Model ----
\* Model of travel-backup-script.py: build_repo, redact_env and the
\* sequential pipeline of main (argument defaults, .env loading, validation,
\* environment preparation, diagnostics, restic invocation).
\* Strings are sequences of one-character strings; a missing dict entry /
\* None argument is the value Absent.
EXTENDS Integers, Sequences, FiniteSets, TLC

VARIABLES
    \* inputs of one run of main
    amb,         \* ambient process environment before main
    file,        \* key=value pairs of the --env-file
    envFile,     \* os.path.exists(args.env_file)
    cli,         \* command-line arguments
    restic,      \* which("restic") is not None
    outcome,     \* what subprocess.run does: "ok", "startfail", "decodefail"
    engineRc,    \* restic's own exit status
    engineOut,   \* restic's captured stdout
    engineErr,   \* restic's captured stderr
    \* state of main
    pc, environ,
    order,       \* insertion order of the keys of os.environ, then of env
    argEndpoint, argPrefix, repo, env, missing, out,
    attempted, passedEnv, rc,
    \* build_repo on its own
    bIn, bOut

mainVars == <<amb, file, envFile, cli, restic, outcome, engineRc, engineOut, engineErr,
              pc, environ, order,
              argEndpoint, argPrefix, repo, env, missing, out, attempted,
              passedEnv, rc>>
buildVars == <<bIn, bOut>>
vars == <<mainVars, buildVars>>

\* None: a one-element sequence whose element is no single character
Absent == <<"None">>

\* ---------------------------------------------------------------- bounds
NVal == 2
MaxLen == 2

Chars == <<"x", "y", "z", "w", "v">>
Vals == {<<>>} \cup {<<Chars[i]>> : i \in 1..NVal}
Opt == {Absent} \cup Vals
Truthy(v) == v # Absent /\ v # <<>>

RECURSIVE StrsUpTo(_, _)
StrsUpTo(alpha, n) ==
    IF n = 0 THEN {<<>>}
    ELSE StrsUpTo(alpha, n - 1) \cup
         {s \o <<c>> : s \in StrsUpTo(alpha, n - 1), c \in alpha}

\* ---------------------------------------------------------------- build_repo
Scheme == <<"s", "3", ":">>

RECURSIVE RStrip(_)
RStrip(s) == IF s # <<>> /\ s[Len(s)] = "/" THEN RStrip(SubSeq(s, 1, Len(s) - 1)) ELSE s

RECURSIVE LStrip(_)
LStrip(s) == IF s # <<>> /\ s[1] = "/" THEN LStrip(SubSeq(s, 2, Len(s))) ELSE s

Strip(s) == LStrip(RStrip(s))

RECURSIVE JoinSlash(_)
JoinSlash(parts) ==
    IF Len(parts) = 1 THEN parts[1]
    ELSE parts[1] \o <<"/">> \o JoinSlash(Tail(parts))

BuildRepo(endpoint, bucket, prefix) ==
    LET p1 == << Scheme \o RStrip(endpoint) >>
        p2 == IF bucket # <<>> THEN p1 \o << Strip(bucket) >> ELSE p1
        p3 == IF prefix # <<>> THEN p2 \o << Strip(prefix) >> ELSE p2
    IN JoinSlash(p3)

\* ---------------------------------------------------------------- redact_env
Keys == {"RESTIC_PASSWORD", "AWS_ACCESS_KEY_ID", "AWS_SECRET_ACCESS_KEY",
         "AWS_SECRET_KEY", "WASABI_ENDPOINT", "RESTIC_PREFIX",
         "PATH", "HOME", "OTHER"}
\* order of the ambient os.environ entries and of the .env lines (one possible order)
KeyOrder == <<"PATH", "HOME", "OTHER", "WASABI_ENDPOINT", "RESTIC_PREFIX",
              "AWS_ACCESS_KEY_ID", "AWS_SECRET_ACCESS_KEY", "AWS_SECRET_KEY",
              "RESTIC_PASSWORD">>
SecretKeys == {"AWS_SECRET_ACCESS_KEY", "RESTIC_PASSWORD", "AWS_SECRET_KEY"}
Marker == <<"*", "*", "*", "R", "E", "D", "A", "C", "T", "E", "D", "*", "*", "*">>

\* AWS_SECRET_KEY left out of the redacted tuple
RedactEnvNoSecretKey(e) ==
    [k \in Keys |-> IF k \in SecretKeys \ {"AWS_SECRET_KEY"} /\ e[k] # Absent /\ e[k] # <<>>
                    THEN Marker ELSE e[k]]

RedactEnv(e) ==
    [k \in Keys |-> IF k \in SecretKeys /\ e[k] # Absent /\ e[k] # <<>>
                    THEN Marker ELSE e[k]]

\* ---------------------------------------------------------------- main helpers
DefaultEndpoint == <<"s", "3", ".", "w", "a", "s", "a", "b", "i", "s", "y", "s",
                     ".", "c", "o", "m">>
DefaultPrefix == <<"t", "r", "a", "v", "e", "l", "-", "b", "a", "c", "k", "u", "p">>

\* argparse default computed from os.environ when add_argument runs
ArgDefault(given, e, k, dflt) ==
    IF given # Absent THEN given ELSE IF e[k] # Absent THEN e[k] ELSE dflt

\* load_dotenv(path) with override=False
LoadDotenv(e, f) == [k \in Keys |-> IF e[k] = Absent /\ f[k] # Absent THEN f[k] ELSE e[k]]

\* keys set by load_dotenv are appended to os.environ
LoadDotenvOrder(o, e, f) == o \o SelectSeq(KeyOrder, LAMBDA k : e[k] = Absent /\ f[k] # Absent)

\* CLI value applied only when the environment lacks one
ApplyCliEnvFirst(e, c) ==
    [k \in Keys |->
        IF k = "RESTIC_PASSWORD" /\ Truthy(c.password) /\ ~Truthy(e[k]) THEN c.password
        ELSE IF k = "AWS_ACCESS_KEY_ID" /\ Truthy(c.access_key) /\ ~Truthy(e[k]) THEN c.access_key
        ELSE IF k = "AWS_SECRET_ACCESS_KEY" /\ Truthy(c.secret_key) /\ ~Truthy(e[k]) THEN c.secret_key
        ELSE e[k]]

\* CLI > env precedence of lines 84-89
ApplyCli(e, c) ==
    [k \in Keys |->
        IF k = "RESTIC_PASSWORD" /\ Truthy(c.password) THEN c.password
        ELSE IF k = "AWS_ACCESS_KEY_ID" /\ Truthy(c.access_key) THEN c.access_key
        ELSE IF k = "AWS_SECRET_ACCESS_KEY" /\ Truthy(c.secret_key) THEN c.secret_key
        ELSE e[k]]

RequiredOrder == <<"RESTIC_PASSWORD", "AWS_ACCESS_KEY_ID", "AWS_SECRET_ACCESS_KEY">>

CliField(k) == CASE k = "RESTIC_PASSWORD" -> "password"
                 [] k = "AWS_ACCESS_KEY_ID" -> "access_key"
                 [] k = "AWS_SECRET_ACCESS_KEY" -> "secret_key"

\* keys the CLI adds to env (lines 84-89) are appended in assignment order
ApplyCliOrder(o, e, c) ==
    o \o SelectSeq(RequiredOrder, LAMBDA k : e[k] = Absent /\ Truthy(c[CliField(k)]))
RequiredKeys == {"RESTIC_PASSWORD", "AWS_ACCESS_KEY_ID", "AWS_SECRET_ACCESS_KEY"}

\* only keys absent from env counted as missing
MissingVarsAbsentOnly(e) == SelectSeq(RequiredOrder, LAMBDA v : e[v] = Absent)

MissingVars(e) == SelectSeq(RequiredOrder, LAMBDA v : ~Truthy(e[v]))

\* keys printed by the diagnostics loop: AWS_*, RESTIC_*, WASABI_ENDPOINT
PrintedKeys == {"RESTIC_PASSWORD", "AWS_ACCESS_KEY_ID", "AWS_SECRET_ACCESS_KEY",
                "AWS_SECRET_KEY", "WASABI_ENDPOINT", "RESTIC_PREFIX"}

\* redact_env(env).items() in dict (insertion) order, filtered by line 113
EnvLines(r, o) ==
    LET ks == SelectSeq(o, LAMBDA k : r[k] # Absent /\ k \in PrintedKeys)
    IN [i \in 1..Len(ks) |-> <<"env", ks[i], r[ks[i]]>>]

\* exit code of the try/except around subprocess.run
RunExit(oc, code) == IF oc = "ok" THEN code ELSE 4

\* " ".join(["restic", "-r", repo, "backup", src])
CommandLine(r, src) ==
    <<"r", "e", "s", "t", "i", "c", " ", "-", "r", " ">> \o r
    \o <<" ", "b", "a", "c", "k", "u", "p", " ">> \o src

\* lines 123-130: error message on an exception, else relay stdout and stderr
RunOutput(oc, so, se) ==
    IF oc # "ok" THEN << <<"error_run", oc>> >>
    ELSE (IF so # <<>> THEN << <<"stdout", so>> >> ELSE <<>>)
         \o (IF se # <<>> THEN << <<"stderr", se>> >> ELSE <<>>)

SnapshotMsg == <<"s", "n", "a", "p", "s", "h", "o", "t">>
ErrMsg == <<"w", "a", "r", "n">>

RcSet == {0, 1, 3, 4}
Outcomes == {"ok", "startfail", "decodefail"}

\* ---------------------------------------------------------------- inputs
NoEnv == [k \in Keys |-> Absent]
X == <<"x">>
AmbBase == [k \in Keys |-> IF k \in {"PATH", "HOME", "OTHER"} \cup RequiredKeys
                           THEN X ELSE Absent]
CliBase == [source |-> TRUE, src |-> X, bucket |-> X, endpoint |-> Absent, prefix |-> Absent,
            access_key |-> Absent, secret_key |-> Absent, password |-> Absent,
            repository |-> Absent, dry_run |-> FALSE, verbose |-> FALSE]

\* environments equal to base except on the keys of K, which range over Opt
Vary(base, K) == {[k \in Keys |-> IF k \in K THEN f[k] ELSE base[k]] : f \in [K -> Opt]}

\* one family of inputs per concern; each is a set of real invocations
InputsCred ==      \* one credential from CLI, ambient and .env
    UNION { {[a |-> a0, f |-> f0, c |-> [CliBase EXCEPT ![CliField(k)] = cv, !.dry_run = d]]
              : a0 \in Vary(AmbBase, {k}), f0 \in Vary(NoEnv, {k}), cv \in Opt, d \in BOOLEAN}
            : k \in RequiredKeys }
InputsMissing ==   \* all three credentials from CLI and ambient
    { [a |-> a0, f |-> NoEnv,
       c |-> [CliBase EXCEPT !.password = p, !.access_key = ak, !.secret_key = sk]]
      : a0 \in Vary(AmbBase, RequiredKeys), p \in Opt, ak \in Opt, sk \in Opt }
InputsDiag ==      \* printed variables under --dry-run / --verbose
    { [a |-> a0, f |-> NoEnv, c |-> [CliBase EXCEPT !.dry_run = d, !.verbose = v, !.src = sp]]
      : a0 \in Vary(AmbBase, PrintedKeys), d \in BOOLEAN, v \in BOOLEAN, sp \in {X, <<"y">>} }
InputsSettings ==  \* endpoint and prefix from CLI, ambient and .env
    { [a |-> a0, f |-> f0, c |-> [CliBase EXCEPT !.endpoint = ce, !.prefix = cp]]
      : a0 \in Vary(AmbBase, {"WASABI_ENDPOINT", "RESTIC_PREFIX"}),
        f0 \in Vary(NoEnv, {"WASABI_ENDPOINT", "RESTIC_PREFIX"}), ce \in Opt, cp \in Opt }
InputsFlow ==      \* source, bucket, repository, flags
    { [a |-> AmbBase, f |-> NoEnv,
       c |-> [CliBase EXCEPT !.source = s, !.bucket = b, !.repository = r,
                             !.dry_run = d, !.verbose = v]]
      : s \in BOOLEAN, b \in Opt, r \in Opt, d \in BOOLEAN, v \in BOOLEAN }

ExampleEndpoint == <<"s", "3", ".", "e", "x", "a", "m", "p", "l", "e", ".", "c", "o", "m">>
Trips == <<"t", "r", "i", "p", "s">>
Y2024 == <<"2", "0", "2", "4">>
ExampleCli == [CliBase EXCEPT !.bucket = Trips, !.prefix = Y2024, !.endpoint = ExampleEndpoint]
InputsExample == { [a |-> AmbBase, f |-> NoEnv, c |-> ExampleCli] }

MainStart(i) ==
    /\ amb = i.a /\ file = i.f /\ cli = i.c
    /\ pc = "parse" /\ environ = i.a
    /\ order = SelectSeq(KeyOrder, LAMBDA k : i.a[k] # Absent)
    /\ argEndpoint = Absent /\ argPrefix = Absent /\ repo = Absent
    /\ env = NoEnv /\ missing = <<>> /\ out = <<>>
    /\ attempted = FALSE /\ passedEnv = NoEnv /\ rc = -1

BuildIdle == bIn = <<X, X, X>> /\ bOut = Absent

Init ==
    /\ BuildIdle
    /\ \/ \E i \in InputsCred \cup InputsMissing \cup InputsDiag \cup InputsSettings :
            MainStart(i) /\ envFile = TRUE /\ restic = TRUE /\ outcome = "ok" /\ engineRc = 0
            /\ engineOut = <<>> /\ engineErr = <<>>
       \/ \E i \in InputsSettings :
            MainStart(i) /\ envFile = FALSE /\ restic = TRUE /\ outcome = "ok" /\ engineRc = 0
            /\ engineOut = <<>> /\ engineErr = <<>>
       \/ \E i \in InputsFlow \cup InputsExample :
            MainStart(i) /\ envFile = TRUE
            /\ restic \in BOOLEAN /\ outcome \in Outcomes /\ engineRc \in RcSet
            /\ engineOut \in {<<>>, SnapshotMsg} /\ engineErr \in {<<>>, ErrMsg}

\* ---------------------------------------------------------------- main steps
Inputs == <<amb, file, envFile, cli, restic, outcome, engineRc, engineOut, engineErr>>

Finish(code, lines) == rc' = code /\ out' = out \o lines /\ pc' = "done"

\* lines 32-59: argparse defaults read os.environ, then parse_args
Parse ==
    /\ pc = "parse"
    /\ argEndpoint' = ArgDefault(cli.endpoint, environ, "WASABI_ENDPOINT", DefaultEndpoint)
    /\ argPrefix' = ArgDefault(cli.prefix, environ, "RESTIC_PREFIX", DefaultPrefix)
    /\ pc' = "load"
    /\ UNCHANGED <<Inputs, order, environ, repo, env, missing, out, attempted, passedEnv, rc, buildVars>>

\* lines 61-63
LoadEnvFile ==
    /\ pc = "load"
    /\ environ' = IF envFile THEN LoadDotenv(environ, file) ELSE environ
    /\ order' = IF envFile THEN LoadDotenvOrder(order, environ, file) ELSE order
    /\ pc' = "source"
    /\ UNCHANGED <<Inputs, argEndpoint, argPrefix, repo, env, missing, out, attempted,
                   passedEnv, rc, buildVars>>

\* lines 65-69
ValidateSource ==
    /\ pc = "source"
    /\ IF ~cli.source
       THEN Finish(2, << <<"error_source">> >>)
       ELSE pc' = "repo" /\ UNCHANGED <<rc, out>>
    /\ UNCHANGED <<Inputs, order, environ, argEndpoint, argPrefix, repo, env, missing, attempted,
                   passedEnv, buildVars>>

\* bucket demanded even when --repository is given
BuildRepositoryBucketFirst ==
    /\ pc = "repo"
    /\ IF ~Truthy(cli.bucket)
       THEN Finish(2, << <<"error_bucket">> >>) /\ UNCHANGED repo
       ELSE IF Truthy(cli.repository)
            THEN repo' = cli.repository /\ pc' = "env" /\ UNCHANGED <<rc, out>>
            ELSE repo' = BuildRepo(argEndpoint, cli.bucket, argPrefix) /\ pc' = "env"
                 /\ UNCHANGED <<rc, out>>
    /\ UNCHANGED <<Inputs, order, environ, argEndpoint, argPrefix, env, missing, attempted,
                   passedEnv, buildVars>>

\* lines 71-78
BuildRepository ==
    /\ pc = "repo"
    /\ IF Truthy(cli.repository)
       THEN repo' = cli.repository /\ pc' = "env" /\ UNCHANGED <<rc, out>>
       ELSE IF ~Truthy(cli.bucket)
            THEN Finish(2, << <<"error_bucket">> >>) /\ UNCHANGED repo
            ELSE repo' = BuildRepo(argEndpoint, cli.bucket, argPrefix) /\ pc' = "env"
                 /\ UNCHANGED <<rc, out>>
    /\ UNCHANGED <<Inputs, order, environ, argEndpoint, argPrefix, env, missing, attempted,
                   passedEnv, buildVars>>

\* lines 80-89
PrepareEnv ==
    /\ pc = "env"
    /\ env' = ApplyCli(environ, cli)
    /\ order' = ApplyCliOrder(order, environ, cli)
    /\ pc' = "missing"
    /\ UNCHANGED <<Inputs, environ, argEndpoint, argPrefix, repo, missing, out, attempted,
                   passedEnv, rc, buildVars>>

\* lines 91-99
CheckMissing ==
    /\ pc = "missing"
    /\ missing' = MissingVars(env)
    /\ IF MissingVars(env) # <<>>
       THEN Finish(2, << <<"error_missing", MissingVars(env)>>, <<"tip">> >>)
       ELSE pc' = "which" /\ UNCHANGED <<rc, out>>
    /\ UNCHANGED <<Inputs, order, environ, argEndpoint, argPrefix, repo, env, attempted,
                   passedEnv, buildVars>>

\* lines 101-104
CheckRestic ==
    /\ pc = "which"
    /\ IF ~restic
       THEN Finish(3, << <<"error_restic">> >>)
       ELSE pc' = "diag" /\ UNCHANGED <<rc, out>>
    /\ UNCHANGED <<Inputs, order, environ, argEndpoint, argPrefix, repo, env, missing, attempted,
                   passedEnv, buildVars>>

\* diagnostics printed under --verbose only
DiagnosticsVerboseOnly ==
    /\ pc = "diag"
    /\ out' = IF cli.verbose
              THEN out \o << <<"repository", repo>>, <<"command", CommandLine(repo, cli.src)>>,
                              <<"env_header">> >>
                       \o EnvLines(RedactEnv(env), order)
              ELSE out
    /\ pc' = "dryrun"
    /\ UNCHANGED <<Inputs, order, environ, argEndpoint, argPrefix, repo, env, missing, attempted,
                   passedEnv, rc, buildVars>>

\* lines 106-114
Diagnostics ==
    /\ pc = "diag"
    /\ out' = IF cli.verbose \/ cli.dry_run
              THEN out \o << <<"repository", repo>>, <<"command", CommandLine(repo, cli.src)>>,
                              <<"env_header">> >>
                       \o EnvLines(RedactEnv(env), order)
              ELSE out
    /\ pc' = "dryrun"
    /\ UNCHANGED <<Inputs, order, environ, argEndpoint, argPrefix, repo, env, missing, attempted,
                   passedEnv, rc, buildVars>>

\* lines 116-118
DryRun ==
    /\ pc = "dryrun"
    /\ IF cli.dry_run
       THEN Finish(0, << <<"dry_run">> >>)
       ELSE pc' = "run" /\ UNCHANGED <<rc, out>>
    /\ UNCHANGED <<Inputs, order, environ, argEndpoint, argPrefix, repo, env, missing, attempted,
                   passedEnv, buildVars>>

\* lines 120-132
RunRestic ==
    /\ pc = "run"
    /\ attempted' = TRUE
    /\ passedEnv' = env
    /\ Finish(RunExit(outcome, engineRc), RunOutput(outcome, engineOut, engineErr))
    /\ UNCHANGED <<Inputs, order, environ, argEndpoint, argPrefix, repo, env, missing, buildVars>>

Next ==
    \/ Parse \/ LoadEnvFile \/ ValidateSource \/ BuildRepository \/ PrepareEnv
    \/ CheckMissing \/ CheckRestic \/ Diagnostics \/ DryRun \/ RunRestic

Spec == Init /\ [][Next]_vars

\* ---------------------------------------------------------------- build_repo alone
BuildInputs ==
    { <<e, b, p>> : e \in StrsUpTo({"a", "/"}, MaxLen) \ {<<>>},
                    b \in StrsUpTo({"a", "/"}, MaxLen), p \in StrsUpTo({"a", "/"}, MaxLen) }

BuildInit ==
    /\ MainStart([a |-> AmbBase, f |-> NoEnv, c |-> CliBase])
    /\ envFile = TRUE /\ restic = TRUE /\ outcome = "ok" /\ engineRc = 0
    /\ engineOut = <<>> /\ engineErr = <<>>
    /\ bIn \in BuildInputs /\ bOut = Absent

Build ==
    /\ bOut = Absent
    /\ bOut' = BuildRepo(bIn[1], bIn[2], bIn[3])
    /\ UNCHANGED <<mainVars, bIn>>

BuildNext == Build

BuildSpec == BuildInit /\ [][BuildNext]_vars

\* ================================================================ properties

EnvBuilt == env # NoEnv
DiagShown == \E i \in 1..Len(out) : out[i][1] = "env_header"
CliVal(c, k) == c[CliField(k)]

RECURSIVE Contains(_, _)
Contains(s, t) ==
    /\ Len(s) >= Len(t)
    /\ (SubSeq(s, 1, Len(t)) = t \/ (Len(s) > 0 /\ Contains(Tail(s), t)))

NoDoubleSlash(s) == ~\E i \in 1..(Len(s) - 1) : s[i] = "/" /\ s[i + 1] = "/"

\* C1: for a non-empty endpoint, build_repo starts with exactly one "s3:",
\* has no "//" after the scheme and no trailing "/", and with empty bucket and
\* prefix is exactly "s3:" + endpoint.rstrip("/").
C1_BuildRepoWellFormed ==
    bOut # Absent =>
        /\ Len(bOut) >= 3 /\ SubSeq(bOut, 1, 3) = Scheme
        /\ ~(Len(bOut) >= 6 /\ SubSeq(bOut, 4, 6) = Scheme)
        /\ NoDoubleSlash(SubSeq(bOut, 4, Len(bOut)))
        /\ bOut[Len(bOut)] # "/"
        /\ (bIn[2] = <<>> /\ bIn[3] = <<>>) => bOut = Scheme \o RStrip(bIn[1])

\* C2 (as stated): a CLI credential that is supplied is the value the
\* subprocess environment holds, whatever the ambient and .env values.
C2_CliCredentialWins ==
    attempted =>
        \A k \in RequiredKeys : CliVal(cli, k) # Absent => passedEnv[k] = CliVal(cli, k)

\* C2 (amended): a non-empty CLI credential is the value the subprocess
\* environment holds, whatever the ambient and .env values.
C2_NonEmptyCliCredentialWins ==
    attempted =>
        \A k \in RequiredKeys :
            /\ Truthy(CliVal(cli, k)) => passedEnv[k] = CliVal(cli, k)
            /\ CliVal(cli, k) = <<>> => passedEnv[k] = environ[k]

C2_Witness ==
    /\ attempted
    /\ \E k \in RequiredKeys :
          /\ Truthy(CliVal(cli, k)) /\ Truthy(amb[k]) /\ amb[k] # CliVal(cli, k)

\* C3: for every secret key with a non-empty value, neither redact_env's
\* output for that key nor the diagnostic line printed for that key holds the
\* value verbatim; redact_env returns every other key's value unchanged, and
\* the diagnostic lines of other keys show the environment value.
C3_SecretNeverEmitted ==
    /\ \A k \in SecretKeys :
          Truthy(env[k]) =>
             /\ RedactEnv(env)[k] # env[k]
             /\ ~Contains(RedactEnv(env)[k], env[k])
             /\ \A i \in 1..Len(out) :
                   (out[i][1] = "env" /\ out[i][2] = k) => ~Contains(out[i][3], env[k])
    /\ \A k \in Keys \ SecretKeys : RedactEnv(env)[k] = env[k]
    /\ \A i \in 1..Len(out) :
          (out[i][1] = "env" /\ out[i][2] \notin SecretKeys) => out[i][3] = env[out[i][2]]

C3_Witness ==
    /\ pc = "done"
    /\ \E i \in 1..Len(out) : out[i][1] = "env" /\ out[i][2] = "AWS_SECRET_KEY" /\ out[i][3] = Marker
    /\ \E i \in 1..Len(out) : out[i][1] = "env" /\ out[i][2] = "RESTIC_PASSWORD" /\ out[i][3] = Marker

NotSet == <<"n", "o", "t", " ", "s", "e", "t">>
RelevantKeys == SecretKeys \cup RequiredKeys \cup {"WASABI_ENDPOINT"}

\* C4: in the diagnostics, every relevant key with an empty or absent value
\* is reported as "not set".
C4_NotSetReported ==
    DiagShown =>
        \A k \in RelevantKeys :
            ~Truthy(env[k]) => \E i \in 1..Len(out) : out[i] = <<"env", k, NotSet>>

AfterRepo == pc \notin {"parse", "load", "source", "repo"}

\* C5 (as stated): a missing source, or neither --repository nor --bucket,
\* gives 2 with no subprocess; a supplied --repository is used verbatim and
\* waives --bucket.
C5_ValidationExits ==
    /\ (pc = "done" /\ ~cli.source) => rc = 2 /\ ~attempted
    /\ (pc = "done" /\ cli.repository = Absent /\ cli.bucket = Absent) => rc = 2 /\ ~attempted
    /\ (cli.source /\ cli.repository # Absent /\ AfterRepo) => repo = cli.repository

\* C5 (amended): as stated, with "supplied" meaning a non-empty --repository.
C5_ValidationExitsNonEmptyRepository ==
    /\ (pc = "done" /\ ~cli.source) => rc = 2 /\ ~attempted
    /\ (pc = "done" /\ cli.repository = Absent /\ cli.bucket = Absent) => rc = 2 /\ ~attempted
    /\ (cli.source /\ Truthy(cli.repository) /\ AfterRepo) => repo = cli.repository
    /\ (pc = "done" /\ cli.source /\ cli.repository = <<>> /\ ~Truthy(cli.bucket))
          => rc = 2 /\ repo = Absent /\ ~attempted

C5_Witness ==
    /\ pc = "done" /\ Truthy(cli.repository) /\ cli.bucket = Absent
    /\ repo = cli.repository /\ attempted

\* C6: a required variable empty or absent in the effective environment
\* makes main return 2 without a subprocess, naming every missing variable.
C6_MissingCredentialsRejected ==
    (pc = "done" /\ EnvBuilt /\ \E v \in RequiredKeys : ~Truthy(env[v])) =>
        /\ rc = 2 /\ ~attempted
        /\ \E i \in 1..Len(out) :
              /\ out[i][1] = "error_missing"
              /\ {out[i][2][j] : j \in 1..Len(out[i][2])} = {v \in RequiredKeys : ~Truthy(env[v])}

C6_Witness ==
    /\ pc = "done" /\ rc = 2 /\ EnvBuilt
    /\ Cardinality({v \in RequiredKeys : ~Truthy(env[v])}) >= 2
    /\ \E v \in RequiredKeys : env[v] = <<>>

ValidDryRun ==
    pc = "done" /\ cli.dry_run /\ cli.source /\ Truthy(cli.bucket)
    /\ EnvBuilt /\ MissingVars(env) = <<>>

\* C7 (as stated): a valid --dry-run run spawns nothing, prints the
\* diagnostics and returns 0, whether or not restic is on PATH.
C7_DryRunSucceeds == ValidDryRun => rc = 0 /\ ~attempted /\ DiagShown

\* C7 (amended): the same, provided restic is on PATH (otherwise 3).
C7_DryRunSucceedsWithRestic ==
    /\ (ValidDryRun /\ restic) => rc = 0 /\ ~attempted /\ DiagShown
    /\ (ValidDryRun /\ ~restic) => rc = 3 /\ ~attempted

C7_Witness == ValidDryRun /\ restic /\ rc = 0 /\ DiagShown /\ ~cli.verbose

ValidRun ==
    pc = "done" /\ cli.source /\ ~cli.dry_run /\ repo # Absent
    /\ EnvBuilt /\ MissingVars(env) = <<>>

ExampleRepo == Scheme \o ExampleEndpoint \o <<"/">> \o Trips \o <<"/">> \o Y2024

\* C8: after validation without --dry-run, the exit code is 3 if restic is
\* not on PATH, 4 if the subprocess cannot be started, and otherwise restic's
\* own status verbatim; the tool's own codes 3 and 4 arise only in their own
\* case; the example arguments give the documented address.
C8_ExitCodes ==
    /\ ValidRun =>
          /\ (~restic => rc = 3)
          /\ (restic /\ outcome = "startfail" => rc = 4)
          /\ (restic /\ outcome # "startfail" => rc = engineRc)
          /\ (rc = 3 => ~restic \/ (attempted /\ engineRc = 3))
          /\ (rc = 4 => outcome = "startfail" \/ (attempted /\ engineRc = 4))
    /\ (cli = ExampleCli /\ AfterRepo) => repo = ExampleRepo

\* C9: the subprocess environment holds only the credential/endpoint
\* variables and PATH and HOME.
C9_OnlyPreservedKeys ==
    attempted => \A k \in Keys : passedEnv[k] # Absent => k \in Keys \ {"OTHER"}

\* C10: a .env value never overrides an ambient value and fills in a
\* variable the ambient environment lacks; WASABI_ENDPOINT or RESTIC_PREFIX
\* defined only in the .env file determines the built address.
C10_SettingsFileFallback ==
    /\ pc \notin {"parse", "load"} =>
          \A k \in Keys :
             /\ amb[k] # Absent => environ[k] = amb[k]
             /\ (amb[k] = Absent /\ envFile /\ file[k] # Absent) => environ[k] = file[k]
    /\ (AfterRepo /\ repo # Absent /\ ~Truthy(cli.repository) /\ envFile) =>
          /\ (cli.endpoint = Absent /\ amb["WASABI_ENDPOINT"] = Absent
              /\ file["WASABI_ENDPOINT"] # Absent)
                 => repo = BuildRepo(file["WASABI_ENDPOINT"], cli.bucket, argPrefix)
          /\ (cli.prefix = Absent /\ amb["RESTIC_PREFIX"] = Absent
              /\ file["RESTIC_PREFIX"] # Absent)
                 => repo = BuildRepo(argEndpoint, cli.bucket, file["RESTIC_PREFIX"])

====
